---- MODULE Spec2Model ----
(***************************************************************************)
(* A model of the Open WebUI / Milvus RAG pipelines:                       *)
(*   RAGpipeline.py             the baseline query pipeline                *)
(*   pipelinewithHYDE.py        the HyDE (dual vector) query pipeline      *)
(*   pipelinewithsupervision.py the supervised generate/validate/retry loop*)
(*   Doc2DB.py                  the ingestion pipeline                     *)
(*                                                                         *)
(* A text is a sequence of characters; a character is a one-element string *)
(* token.  Chinese characters of the source are written in pinyin          *)
(* ("fu","he" for the keyword of supervise_answer, "bu" for its negation). *)
(* Every external call (embedding service, completion service, Milvus) is  *)
(* an input: its outcome is drawn from a small set of the responses and    *)
(* failures the service can produce.                                       *)
(***************************************************************************)
EXTENDS Integers, Sequences, FiniteSets, TLC

VARIABLES
    variant,             \* which program runs: a Pipeline class, or Doc2DB
    has_collection,      \* whether connect_to_milvus set self.collection
    pc,                  \* position of the pipe call
    calls,               \* pipe calls started on this instance
    user_message,        \* pipe's user_message argument
    prior_len,           \* how many prior turns the caller passed in body
    body,                \* pipe's body argument (messages, stream)
    embed_resp,          \* the latest response of the embedding service
    hyp_resp,            \* HyDE: the response to the hypothetical-answer request
    user_vector,         \* retrieve_relevant_information: user_vector
    hypothetical_vector, \* retrieve_relevant_information: hypothetical_vector
    search_dims,         \* lengths of the query vectors of the latest search
    search_hits,         \* the hits the latest collection.search returned
    search_failed,       \* whether the latest collection.search failed
    retrieved_contexts,  \* pipe: retrieved_contexts
    retry_count,         \* pipe: retry_count
    generated_answer,    \* pipe: generated_answer
    lines_read,          \* lines of the open response consumed so far
    frames_seen,         \* the lines the running for loop has consumed
    sent,                \* body['messages'] of the latest generation request
    gen_calls,           \* generation requests issued by the current call
    gen_failed,          \* whether a generation request or its stream failed
    sup_calls,           \* supervision requests issued by the current call
    verdicts_seen,       \* the kinds of verdict the supervisor has given
    last_verdict,        \* outcome of the supervision of this attempt
    outcome,             \* how the pipe call ended: a return value or a raise
    queue,               \* Doc2DB: created events the observer has not dispatched
    created,             \* how many created events have been emitted
    event,               \* on_created: event, until process_file is called
    file_size,           \* on_created: file_size
    processed,           \* the paths process_file has been called with
    ipc,                 \* Doc2DB: position of the observer thread
    file_path,           \* process_file: file_path
    ingested,            \* characters process_file has read so far
    all_ok,              \* no request of this process_file run has failed
    text,                \* process_file: text
    segment_length,      \* process_file: segment_length
    segments,            \* process_file: segments
    seg_idx,             \* process_file: index of the segment of the for loop
    summary_resp,        \* the summarization response for this segment
    summarized_segment,  \* process_file: summarized_segment
    embedding,           \* process_file: embedding
    collection,          \* the records inserted into the Milvus collection
    origin               \* for each record, the file and segment it came from

pipeVars == <<variant, has_collection, pc, calls, user_message, prior_len,
              body, embed_resp, hyp_resp, user_vector, hypothetical_vector,
              search_dims, search_hits, search_failed, retrieved_contexts,
              retry_count,
              generated_answer, lines_read, frames_seen, sent, gen_calls,
              gen_failed, sup_calls, verdicts_seen, last_verdict, outcome>>

\* the pipe variables the ingestion leaves alone
ingestPipeVars == <<variant, has_collection, pc, calls, user_message, prior_len,
                    body, hyp_resp, user_vector, hypothetical_vector,
                    search_dims, search_hits, search_failed, retrieved_contexts,
                    retry_count, generated_answer, lines_read, frames_seen, sent,
                    gen_calls, gen_failed, sup_calls, verdicts_seen,
                    last_verdict, outcome>>

\* the state of the watcher: the observer's queue and on_created's locals
watcherVars == <<queue, created, event, file_size, processed>>

ingestVars == <<watcherVars, ipc, file_path, ingested, all_ok, text,
                segment_length, segments, seg_idx, summary_resp,
                summarized_segment, embedding, collection, origin>>

vars == <<pipeVars, ingestVars>>

(***************************************************************************)
(* Bounds of the model.                                                    *)
(***************************************************************************)
MaxCalls == 2        \* pipe calls on one instance
MaxHits == 1         \* hits the store returns per query vector
MaxFrames == 2       \* lines of one streamed response
MaxTextLen == 3      \* characters of one document
MaxSegLen == 2       \* the segment_length process_file is called with

(***************************************************************************)
(* Program constants.                                                      *)
(***************************************************************************)
DimRAG == 512            \* RAGpipeline.py: [0.0] * 512
DimHYDE == 1024          \* pipelinewithHYDE.py: [0.0] * 1024
DimSupervision == 1024   \* pipelinewithsupervision.py: len(embedding) != 1024
max_retries == 5         \* pipelinewithsupervision.py: max_retries = 5
DimDoc2DB == 768         \* Doc2DB.py: FieldSchema(..., dim=768)

Variants == {"baseline", "hyde", "supervised"}

(***************************************************************************)
(* Texts.                                                                  *)
(***************************************************************************)
PROMPT == <<"P">>                      \* valves.PROMPT (the persona prompt)
QuestionHeader == <<"Q", ":">>         \* the literal before the user message
ContextHeader == <<"C", ":">>          \* the literal before the contexts
NL == <<"\n">>

UserMessages == {<<"u">>, <<"v">>}
Segments == {<<"x">>, <<"y">>}
OldTurn == [role |-> "assistant", content |-> <<"o">>]

RECURSIVE SeqsUpTo(_, _)
SeqsUpTo(S, n) ==
    IF n = 0 THEN {<<>>}
    ELSE LET shorter == SeqsUpTo(S, n - 1)
         IN  shorter \cup {Append(s, e) : s \in shorter, e \in S}

\* "\n".join(contexts)
RECURSIVE Join(_)
Join(contexts) ==
    IF contexts = <<>> THEN <<>>
    ELSE IF Len(contexts) = 1 THEN Head(contexts)
    ELSE Head(contexts) \o NL \o Join(Tail(contexts))

\* whether sub occurs in s as a contiguous run (Python's "sub in s")
Contains(sub, s) ==
    \E i \in 0..(Len(s) - Len(sub)) :
        \A j \in 1..Len(sub) : s[i + j] = sub[j]

(***************************************************************************)
(* Embedding service and the embedding clients.                            *)
(***************************************************************************)
\* Every vector of the model has all its entries equal, and is written as
\* its length and that entry: [0.0] * n is [len |-> n, fill |-> 0].
ZeroVector(n) == [len |-> n, fill |-> 0]
UnitVector(n) == [len |-> n, fill |-> 1]
EmptyVector == [len |-> 0, fill |-> 0]       \* the list []
WrongVector == [len |-> 3, fill |-> 1]       \* a vector of another length
NoVector == [len |-> -1, fill |-> 0]         \* the variable is not bound
NoResponse == [ok |-> FALSE, embedding |-> NoVector]   \* no request made yet

\* what POST /api/embeddings can produce for a client whose collection has
\* dimension dim: a failure (transport error, non-2xx), a vector of the
\* dimension, a vector of another length, a body without "embedding"
EmbedOutcomes(dim) ==
    {[ok |-> FALSE, embedding |-> EmptyVector]}
    \cup {[ok |-> TRUE, embedding |-> v] :
             v \in {UnitVector(dim), WrongVector, EmptyVector}}

generate_embedding_RAG(resp) ==
    IF resp.ok THEN resp.embedding ELSE ZeroVector(DimRAG)

generate_embedding_HYDE(resp) ==
    IF resp.ok THEN resp.embedding ELSE ZeroVector(DimHYDE)

generate_embedding_supervision(resp) ==
    IF ~resp.ok THEN ZeroVector(DimSupervision)
    ELSE IF resp.embedding.len # DimSupervision THEN ZeroVector(DimSupervision)
    ELSE resp.embedding

\* the dimension each program is configured for
Dim(v) ==
    CASE v = "baseline" -> DimRAG
      [] v = "hyde" -> DimHYDE
      [] v = "supervised" -> DimSupervision
      [] v = "doc2db" -> DimDoc2DB

\* Doc2DB.generate_embedding
generate_embedding_Doc2DB(resp) ==
    IF resp.ok THEN resp.embedding ELSE EmptyVector

generate_embedding(v, resp) ==
    CASE v = "baseline" -> generate_embedding_RAG(resp)
      [] v = "hyde" -> generate_embedding_HYDE(resp)
      [] v = "supervised" -> generate_embedding_supervision(resp)

(***************************************************************************)
(* Prompt assembly.                                                        *)
(***************************************************************************)
combine_RAG(msg, contexts) ==
    PROMPT \o NL \o NL \o msg \o NL \o NL \o Join(contexts)

combine_HYDE(msg, contexts) ==
    PROMPT \o NL \o NL \o QuestionHeader \o NL \o NL \o msg \o NL \o NL
        \o ContextHeader \o Join(contexts)

combine_supervision(msg, contexts) ==
    PROMPT \o NL \o NL \o QuestionHeader \o NL \o NL \o msg \o NL \o NL
        \o ContextHeader \o Join(contexts)

combine_user_message_with_context(v, msg, contexts) ==
    CASE v = "baseline" -> combine_RAG(msg, contexts)
      [] v = "hyde" -> combine_HYDE(msg, contexts)
      [] v = "supervised" -> combine_supervision(msg, contexts)

(***************************************************************************)
(* Whitespace: Python's str.strip().                                       *)
(***************************************************************************)
Whitespace == {" ", "\n"}

RECURSIVE LStrip(_)
LStrip(s) ==
    IF s = <<>> THEN <<>>
    ELSE IF Head(s) \in Whitespace THEN LStrip(Tail(s))
    ELSE s

RECURSIVE RStrip(_)
RStrip(s) ==
    IF s = <<>> THEN <<>>
    ELSE IF s[Len(s)] \in Whitespace THEN RStrip(SubSeq(s, 1, Len(s) - 1))
    ELSE s

Strip(s) == RStrip(LStrip(s))

(***************************************************************************)
(* Milvus search.  The store answers a search with one hit list per query  *)
(* vector, in the order of the query vectors, or fails.                    *)
(***************************************************************************)
HitLists == SeqsUpTo(Segments, MaxHits)

SearchOutcomes(nq) ==
    {[ok |-> FALSE, results |-> <<>>], [ok |-> TRUE, results |-> <<>>]}
    \cup {[ok |-> TRUE, results |-> r] : r \in [1..nq -> HitLists]}

\* the value of retrieve_relevant_information after collection.search
\* answered: [raised, contexts]
retrieve_RAG(res) ==
    IF ~res.ok THEN [raised |-> TRUE, contexts |-> <<>>]
    ELSE IF res.results = <<>> THEN [raised |-> TRUE, contexts |-> <<>>]
    ELSE [raised |-> FALSE, contexts |-> res.results[1]]

retrieve_HYDE(res) ==
    IF ~res.ok THEN [raised |-> TRUE, contexts |-> <<>>]
    ELSE IF res.results = <<>> THEN [raised |-> TRUE, contexts |-> <<>>]
    ELSE [raised |-> FALSE, contexts |-> res.results[1]]

retrieve_supervision(connected, res) ==
    IF ~connected THEN [raised |-> FALSE, contexts |-> <<>>]
    ELSE IF ~res.ok THEN [raised |-> FALSE, contexts |-> <<>>]
    ELSE IF res.results = <<>> THEN [raised |-> FALSE, contexts |-> <<>>]
    ELSE [raised |-> FALSE, contexts |-> res.results[1]]

retrieve_relevant_information(v, connected, res) ==
    CASE v = "baseline" -> retrieve_RAG(res)
      [] v = "hyde" -> retrieve_HYDE(res)
      [] v = "supervised" -> retrieve_supervision(connected, res)

(***************************************************************************)
(* The streamed response of the generation request and its assembly.       *)
(***************************************************************************)
Fragments == {<<"a">>, <<"b">>}

\* the lines r.iter_lines() can deliver
Frames ==
    {[kind |-> k, content |-> <<>>] :
        k \in {"blank", "nodata", "done", "badjson", "nochoices",
               "nocontent", "nullcontent"}}
    \cup {[kind |-> "delta", content |-> c] : c \in Fragments}

\* one iteration of the for loop over r.iter_lines(): what the loop does
\* next and the value of generated_answer
process_line(f, acc) ==
    CASE f.kind = "blank" -> [next |-> "continue", answer |-> acc]
      [] f.kind = "nodata" -> [next |-> "continue", answer |-> acc]
      [] f.kind = "done" -> [next |-> "break", answer |-> acc]
      [] f.kind = "badjson" -> [next |-> "continue", answer |-> acc]
      [] f.kind = "nochoices" -> [next |-> "IndexError", answer |-> acc]
      [] f.kind = "nocontent" -> [next |-> "continue", answer |-> acc]
      [] f.kind = "nullcontent" -> [next |-> "TypeError", answer |-> acc]
      [] f.kind = "delta" -> [next |-> "continue", answer |-> acc \o f.content]

(***************************************************************************)
(* Supervision.                                                            *)
(***************************************************************************)
KEYWORD == <<"fu", "he">>                       \* the keyword tested for
VerdictTexts ==
    {<<"fu", "he">>,                            \* "conforms"
     <<"bu", "fu", "he">>,                      \* "does not conform"
     <<"t", "r", "u", "e">>,                    \* the answer the prompt asks for
     <<"f", "a", "l", "s", "e", "\n">>,         \* its negation
     <<>>}                                      \* no text

\* what POST /v1/completions can produce for the supervision prompt
SupOutcomes ==
    {[kind |-> k, text |-> <<>>] : k \in {"fail", "nochoices"}}
    \cup {[kind |-> "text", text |-> t] : t \in VerdictTexts}

\* what the supervising model meant
Approves(out) ==
    out.kind = "text" /\ Strip(out.text) \in {<<"fu", "he">>, <<"t", "r", "u", "e">>}
Rejects(out) ==
    out.kind = "text" /\ Strip(out.text) \in {<<"bu", "fu", "he">>, <<"f", "a", "l", "s", "e">>}

Meaning(out) ==
    IF Approves(out) THEN "approval"
    ELSE IF Rejects(out) THEN "negative"
    ELSE "other"

NoVerdict == [kind |-> "none", text |-> <<>>]

supervise_answer(out) ==
    IF out.kind = "fail" THEN FALSE
    ELSE IF out.kind = "nochoices" THEN FALSE
    ELSE Contains(KEYWORD, Strip(out.text))

(***************************************************************************)
(* Return values of pipe.                                                  *)
(***************************************************************************)
FALLBACK == <<"F">>      \* the fixed message returned after the last retry
NoOutcome == [kind |-> "none", text |-> <<>>]
Raised == [kind |-> "raise", text |-> <<>>]
Returned(k, t) == [kind |-> k, text |-> t]

(***************************************************************************)
(* The state after construction of one Pipeline.  The baseline and HyDE    *)
(* constructors raise when Milvus cannot be reached; the supervised one    *)
(* logs the failure and leaves the instance without a collection.          *)
(***************************************************************************)
InitPipe ==
    /\ variant \in Variants \cup {"doc2db"}
    /\ has_collection \in (IF variant = "supervised" THEN BOOLEAN ELSE {TRUE})
    /\ pc = "idle"
    /\ calls = 0
    /\ user_message = <<>>
    /\ prior_len = 0
    /\ body = [messages |-> <<>>, stream |-> FALSE]
    /\ embed_resp = NoResponse
    /\ hyp_resp = "none"
    /\ user_vector = NoVector
    /\ hypothetical_vector = NoVector
    /\ search_dims = <<>>
    /\ search_hits = <<>>
    /\ search_failed = FALSE
    /\ retrieved_contexts = <<>>
    /\ retry_count = 0
    /\ generated_answer = <<>>
    /\ lines_read = 0
    /\ frames_seen = <<>>
    /\ sent = <<>>
    /\ gen_calls = 0
    /\ gen_failed = FALSE
    /\ sup_calls = 0
    /\ verdicts_seen = {}
    /\ last_verdict = NoVerdict
    /\ outcome = NoOutcome

\* Doc2DB: no summarization request made yet for the segment
NoSummary == [kind |-> "none", content |-> <<>>]

\* Doc2DB: on_created is not running
NoEvent == [src_path |-> "none", is_directory |-> FALSE, ext |-> "none"]

InitIngest ==
    /\ queue = <<>>
    /\ created = 0
    /\ event = NoEvent
    /\ file_size = 0
    /\ processed = <<>>
    /\ ipc = "idle"
    /\ file_path = "none"
    /\ ingested = 0
    /\ all_ok = TRUE
    /\ text = <<>>
    /\ segment_length \in (IF variant = "doc2db" THEN 1..MaxSegLen ELSE {1})
    /\ segments = <<>>
    /\ seg_idx = 0
    /\ summary_resp = NoSummary
    /\ summarized_segment = <<>>
    /\ embedding = NoVector
    /\ collection = <<>>
    /\ origin = <<>>

Init == InitPipe /\ InitIngest

\* the turns a caller can pass as the conversation so far: none, an earlier
\* turn, or the body the previous call left behind
PriorTurns == {<<>>, <<OldTurn>>} \cup {body.messages}

\* the values of body['stream'] a caller passes; the supervised pipe never
\* reads it
Streams == IF variant = "supervised" THEN {TRUE} ELSE BOOLEAN

\* the caller invokes pipe(user_message, model_id, messages, body)
PipeCall ==
    /\ variant \in Variants
    /\ pc \in {"idle", "done"}
    /\ calls < MaxCalls
    /\ \E msg \in UserMessages, prior \in PriorTurns, stream \in Streams :
          /\ user_message' = msg
          /\ prior_len' = Len(prior)
          /\ body' = [messages |-> prior, stream |-> stream]
    /\ calls' = calls + 1
    /\ pc' = "called"
    /\ embed_resp' = NoResponse
    /\ hyp_resp' = "none"
    /\ user_vector' = NoVector
    /\ hypothetical_vector' = NoVector
    /\ search_dims' = <<>>
    /\ search_hits' = <<>>
    /\ search_failed' = FALSE
    /\ retrieved_contexts' = <<>>
    /\ retry_count' = 0
    /\ generated_answer' = <<>>
    /\ lines_read' = 0
    /\ frames_seen' = <<>>
    /\ sent' = <<>>
    /\ gen_calls' = 0
    /\ gen_failed' = FALSE
    /\ sup_calls' = 0
    /\ verdicts_seen' = {}
    /\ last_verdict' = NoVerdict
    /\ outcome' = NoOutcome
    /\ UNCHANGED <<variant, has_collection>>
    /\ UNCHANGED ingestVars

clear_context_kept(b) == b

\* body['messages'] = []
clear_context(b) == [b EXCEPT !.messages = <<>>]

\* body['messages'].append({"role": "user", "content": combined_message})
append_user_turn(b, content) ==
    [b EXCEPT !.messages = Append(@, [role |-> "user", content |-> content])]

\* pipe up to the embedding request of retrieve_relevant_information:
\* body['messages'] = [], then user_vector = generate_embedding(user_message)
EmbedUser ==
    /\ pc = "called"
    /\ body' = clear_context(body)
    /\ \E resp \in EmbedOutcomes(Dim(variant)) :
          /\ embed_resp' = resp
          /\ user_vector' = generate_embedding(variant, resp)
    /\ pc' = IF variant = "hyde" THEN "hypothetical" ELSE "search"
    /\ UNCHANGED <<variant, has_collection, calls, user_message, prior_len,
                   hyp_resp, frames_seen,
                   hypothetical_vector, search_dims, search_hits,
                   search_failed, retrieved_contexts, retry_count,
                   generated_answer, lines_read, sent, gen_calls, gen_failed,
                   sup_calls, verdicts_seen, last_verdict,
                   outcome>>
    /\ UNCHANGED ingestVars

\* what POST /v1/completions can produce for the hypothetical answer
HypOutcomes == {"fail", "nochoices", "text"}

\* HyDE: generate_hypothetical_answer, which guards nothing: a failed
\* request (raise_for_status) or an empty choices list raises through
\* retrieve_relevant_information and pipe
generate_hypothetical_answer(resp) ==
    IF resp = "fail" THEN [raised |-> TRUE]
    ELSE IF resp = "nochoices" THEN [raised |-> TRUE]
    ELSE [raised |-> FALSE]

HypotheticalAnswer ==
    /\ pc = "hypothetical"
    /\ \E resp \in HypOutcomes :
          /\ hyp_resp' = resp
          /\ IF generate_hypothetical_answer(resp).raised
             THEN /\ pc' = "done"
                  /\ outcome' = Raised
             ELSE /\ pc' = "hypothetical_embed"
                  /\ outcome' = outcome
    /\ UNCHANGED <<variant, has_collection, calls, user_message, prior_len,
                   frames_seen, body, embed_resp, user_vector, hypothetical_vector,
                   search_dims, search_hits, search_failed,
                   retrieved_contexts, retry_count, generated_answer,
                   lines_read, sent, gen_calls, gen_failed, sup_calls,
                   verdicts_seen, last_verdict>>
    /\ UNCHANGED ingestVars

\* HyDE: hypothetical_vector = generate_embedding(hypothetical_answer)
EmbedHypothetical ==
    /\ pc = "hypothetical_embed"
    /\ \E resp \in EmbedOutcomes(Dim(variant)) :
          /\ embed_resp' = resp
          /\ hypothetical_vector' = generate_embedding(variant, resp)
    /\ pc' = "search"
    /\ UNCHANGED <<variant, has_collection, calls, user_message, prior_len,
                   hyp_resp, frames_seen,
                   body, user_vector, search_dims, search_hits, search_failed,
                   retrieved_contexts, retry_count, generated_answer,
                   lines_read, sent, gen_calls, gen_failed, sup_calls,
                   verdicts_seen, last_verdict, outcome>>
    /\ UNCHANGED ingestVars

\* the data argument of collection.search
SearchData ==
    IF variant = "hyde" THEN <<user_vector, hypothetical_vector>>
    ELSE <<user_vector>>

\* collection.search, the rest of retrieve_relevant_information, and pipe
\* up to the generation request: the prompt is assembled and appended to
\* body['messages'] as the one user turn.  Without self.collection the
\* supervised pipeline fails before a search is issued.
Search ==
    /\ pc = "search"
    /\ search_dims' = IF has_collection
                      THEN [i \in 1..Len(SearchData) |-> SearchData[i].len]
                      ELSE <<>>
    /\ \E res \in (IF has_collection THEN SearchOutcomes(Len(SearchData))
                                      ELSE {[ok |-> FALSE, results |-> <<>>]}) :
          LET r == retrieve_relevant_information(variant, has_collection, res) IN
          /\ search_hits' = res.results
          /\ search_failed' = (has_collection /\ ~res.ok)
          /\ IF r.raised
             THEN /\ pc' = "done"
                  /\ outcome' = Raised
                  /\ UNCHANGED <<retrieved_contexts, body>>
             ELSE /\ pc' = "generate"
                  /\ outcome' = outcome
                  /\ retrieved_contexts' = r.contexts
                  /\ body' = append_user_turn(body,
                                combine_user_message_with_context(
                                    variant, user_message, r.contexts))
    /\ embed_resp' = NoResponse
    /\ user_vector' = NoVector
    /\ hypothetical_vector' = NoVector
    /\ retry_count' = 0
    /\ UNCHANGED <<variant, has_collection, calls, user_message, prior_len,
                   hyp_resp, frames_seen,
                   generated_answer, lines_read, sent, gen_calls, gen_failed,
                   sup_calls, verdicts_seen, last_verdict>>
    /\ UNCHANGED ingestVars

\* what POST /v1/chat/completions can produce for the unsupervised pipes:
\* a failure, a response whose body is JSON, a response whose body is not
GenOutcomes == {"fail", "json", "notjson"}

\* the try block of the baseline and HyDE pipe
pipe_unsupervised(resp, stream) ==
    IF resp = "fail" THEN Returned("error", <<>>)
    ELSE IF stream THEN Returned("lines", <<>>)
    ELSE IF resp = "notjson" THEN Returned("error", <<>>)
    ELSE Returned("json", <<>>)

Generate ==
    /\ pc = "generate"
    /\ variant \in {"baseline", "hyde"}
    /\ sent' = body.messages
    /\ gen_calls' = gen_calls + 1
    /\ \E resp \in GenOutcomes :
          /\ outcome' = pipe_unsupervised(resp, body.stream)
          /\ gen_failed' = (resp = "fail")
    /\ pc' = "done"
    /\ UNCHANGED <<variant, has_collection, calls, user_message, prior_len,
                   hyp_resp, frames_seen,
                   body, embed_resp, user_vector, hypothetical_vector,
                   search_dims, search_hits, search_failed,
                   retrieved_contexts, retry_count, generated_answer,
                   lines_read, sup_calls, verdicts_seen,
                   last_verdict>>
    /\ UNCHANGED ingestVars

reset_answer_kept(acc) == acc

\* generated_answer = ""
reset_answer(acc) == <<>>

after_generation_request_ignored(failed) == "assemble"

\* where pipe goes after the generation request: a transport failure or
\* raise_for_status raises RequestException, whose except clause returns
after_generation_request(failed) == IF failed THEN "done" ELSE "assemble"

\* supervised pipe, the head of one iteration of the while loop: the
\* generation request and raise_for_status; generated_answer = ""
GenerateSupervised ==
    /\ pc = "generate"
    /\ variant = "supervised"
    /\ retry_count < max_retries
    /\ sent' = body.messages
    /\ gen_calls' = gen_calls + 1
    /\ lines_read' = 0
    /\ frames_seen' = <<>>
    /\ last_verdict' = NoVerdict
    /\ \E failed \in BOOLEAN :
          /\ gen_failed' = (gen_failed \/ failed)
          /\ pc' = after_generation_request(failed)
          /\ IF after_generation_request(failed) = "done"
             THEN /\ outcome' = Returned("request_error", <<>>)
                  /\ UNCHANGED generated_answer
             ELSE /\ generated_answer' = reset_answer(generated_answer)
                  /\ UNCHANGED outcome
    /\ UNCHANGED <<variant, has_collection, calls, user_message, prior_len,
                   hyp_resp, body, embed_resp, user_vector,
                   hypothetical_vector, search_dims, search_hits,
                   search_failed, retrieved_contexts, retry_count, sup_calls,
                   verdicts_seen>>
    /\ UNCHANGED ingestVars

\* supervised pipe, the for loop over r.iter_lines(): the stream delivers
\* one more line, or ends
AssembleLine ==
    /\ pc = "assemble"
    /\ \/ /\ pc' = "supervise"
          /\ lines_read' = 0
          /\ frames_seen' = <<>>
          /\ UNCHANGED <<generated_answer, gen_failed, outcome>>
       \/ /\ lines_read < MaxFrames
          /\ \E f \in Frames :
                LET r == process_line(f, generated_answer) IN
                /\ frames_seen' = IF r.next = "break" THEN <<>>
                                  ELSE Append(frames_seen, f)
                /\ generated_answer' = r.answer
                /\ IF r.next = "continue"
                   THEN /\ pc' = "assemble"
                        /\ lines_read' = lines_read + 1
                        /\ UNCHANGED <<gen_failed, outcome>>
                   ELSE IF r.next = "break"
                   THEN /\ pc' = "supervise"
                        /\ lines_read' = 0
                        /\ UNCHANGED <<gen_failed, outcome>>
                   ELSE /\ pc' = "done"
                        /\ lines_read' = 0
                        /\ gen_failed' = TRUE
                        /\ outcome' = Returned("other_error", <<r.next>>)
    /\ UNCHANGED <<variant, has_collection, calls, user_message, prior_len,
                   hyp_resp,
                   body, embed_resp, user_vector, hypothetical_vector,
                   search_dims, search_hits, search_failed,
                   retrieved_contexts, retry_count, sent, gen_calls,
                   sup_calls, verdicts_seen, last_verdict>>
    /\ UNCHANGED ingestVars

next_retry_count_stuck(rc) == rc

\* retry_count += 1
next_retry_count(rc) == rc + 1

\* supervised pipe, the rest of the iteration: supervise_answer and the
\* decision to return the answer, to retry, or to give up
Supervise ==
    /\ pc = "supervise"
    /\ sup_calls' = sup_calls + 1
    /\ UNCHANGED frames_seen
    /\ \E out \in SupOutcomes :
          /\ last_verdict' = out
          /\ verdicts_seen' = verdicts_seen \cup {Meaning(out)}
          /\ IF supervise_answer(out)
             THEN /\ outcome' = Returned("answer", generated_answer)
                  /\ pc' = "done"
                  /\ UNCHANGED retry_count
             ELSE /\ retry_count' = next_retry_count(retry_count)
                  /\ IF next_retry_count(retry_count) < max_retries
                     THEN /\ pc' = "generate"
                          /\ UNCHANGED outcome
                     ELSE /\ pc' = "done"
                          /\ outcome' = Returned("exhausted", FALLBACK)
    /\ UNCHANGED <<variant, has_collection, calls, user_message, prior_len,
                   hyp_resp,
                   body, embed_resp, user_vector, hypothetical_vector,
                   search_dims, search_hits, search_failed,
                   retrieved_contexts, generated_answer, lines_read, sent,
                   gen_calls, gen_failed>>
    /\ UNCHANGED ingestVars

(***************************************************************************)
(* Doc2DB: the watcher.  monitor_directory starts one Observer with one    *)
(* FileHandler; the observer thread takes the created events from its      *)
(* queue one at a time and calls on_created, which runs in that thread     *)
(* until it returns.                                                       *)
(***************************************************************************)
\* the paths that appear in the watched directory, in the order in which
\* they appear
Files == <<"f1", "f2">>
Extensions == {".txt", ".docx", ".pdf", ".doc", ".md"}

\* what os.path.getsize reports for a file that is being written
FileSizes == {0, 1}

Qualifies_any(e) == TRUE

\* not event.is_directory and
\* event.src_path.lower().endswith(('.txt', '.doc', '.docx', '.pdf'))
Qualifies(e) ==
    ~e.is_directory /\ e.ext \in {".txt", ".doc", ".docx", ".pdf"}

ObserverFree_always == TRUE

\* the observer thread is not inside on_created
ObserverFree == ipc = "idle"

\* the operating system reports a new file: the observer's emitter queues
\* the event, whatever the observer thread is doing
FileCreated ==
    /\ variant = "doc2db"
    /\ created < Len(Files)
    /\ created' = created + 1
    /\ queue' = Append(queue, Files[created + 1])
    /\ UNCHANGED <<event, file_size, processed, ipc, file_path, ingested,
                   all_ok, text, segment_length, segments, seg_idx,
                   summary_resp, summarized_segment, embedding, collection,
                   origin>>
    /\ UNCHANGED ingestPipeVars
    /\ UNCHANGED embed_resp

\* the observer thread dispatches the next event: on_created up to its
\* while loop.  An event that does not pass the test is dropped.
OnCreated ==
    /\ variant = "doc2db"
    /\ ObserverFree
    /\ queue # <<>>
    /\ queue' = Tail(queue)
    /\ \E d \in BOOLEAN, x \in Extensions :
          LET e == [src_path |-> Head(queue), is_directory |-> d, ext |-> x]
          IN  IF Qualifies(e)
              THEN /\ event' = e
                   /\ ipc' = "waiting"
              ELSE /\ event' = NoEvent
                   /\ ipc' = "idle"
    /\ file_size' = 0
    /\ UNCHANGED <<created, processed, file_path, ingested, all_ok, text,
                   segment_length, segments, seg_idx, summary_resp,
                   summarized_segment, embedding, collection, origin>>
    /\ UNCHANGED ingestPipeVars
    /\ UNCHANGED embed_resp

\* one iteration of "while file_size == 0": os.path.getsize, and
\* time.sleep(1) when the file is still empty
GetSize ==
    /\ ipc = "waiting"
    /\ \E size \in FileSizes :
          /\ file_size' = size
          /\ ipc' = IF size = 0 THEN "waiting" ELSE "process"
    /\ UNCHANGED <<queue, created, event, processed, file_path, ingested,
                   all_ok, text, segment_length, segments, seg_idx,
                   summary_resp, summarized_segment, embedding, collection,
                   origin>>
    /\ UNCHANGED ingestPipeVars
    /\ UNCHANGED embed_resp

(***************************************************************************)
(* Doc2DB: the ingestion of one document.                                  *)
(***************************************************************************)
Chars == {"a", "b", " "}
Texts == SeqsUpTo(Chars, MaxTextLen)
Summaries == {<<"s">>}

Min(a, b) == IF a < b THEN a ELSE b

Chunk_overlapping(t, L) ==
    [k \in 1..((Len(t) + L - 1) \div L) |->
        SubSeq(t, (k - 1) * L + 1, Min(k * L + 1, Len(t)))]

\* [text[i:i + segment_length] for i in range(0, len(text), segment_length)]
Chunk(t, L) ==
    [k \in 1..((Len(t) + L - 1) \div L) |->
        SubSeq(t, (k - 1) * L + 1, Min(k * L, Len(t)))]

IsBlank_leading(segment) == segment = <<>> \/ Head(segment) \in Whitespace

\* len(segment.strip()) == 0
IsBlank(segment) == Len(Strip(segment)) = 0

\* the for loop's next segment that is not skipped by "continue", from
\* index i on; Len(segs) + 1 when the loop is over
RECURSIVE NextSegment(_, _)
NextSegment(segs, i) ==
    IF i > Len(segs) THEN Len(segs) + 1
    ELSE IF IsBlank(segs[i]) THEN NextSegment(segs, i + 1)
    ELSE i

\* what POST /v1/chat/completions can produce for the summarization: a
\* failure (transport error, non-2xx), a body with an empty or missing
\* choices list, a choice without message content, a completion
SummaryOutcomes ==
    {[kind |-> k, content |-> <<>>] : k \in {"fail", "nochoices", "nocontent"}}
    \cup {[kind |-> "completion", content |-> c] : c \in Summaries}

\* summarize_text_with_llm: [raised, text]
summarize_text_with_llm(segment, resp) ==
    IF resp.kind = "fail" THEN [raised |-> FALSE, text |-> segment]
    ELSE IF resp.kind = "nochoices" THEN [raised |-> TRUE, text |-> <<>>]
    ELSE IF resp.kind = "nocontent" THEN [raised |-> FALSE, text |-> <<>>]
    ELSE [raised |-> FALSE, text |-> resp.content]

\* the documents a run can still read: the characters of all the documents
\* of one run are at most MaxTextLen
Readable == {t \in Texts : Len(t) <= MaxTextLen - ingested}

\* on_created calls process_file(event.src_path, 2000, ...); process_file up
\* to the first summarization request: the extension is looked at, the file
\* read, the text chunked
ProcessFile ==
    /\ ipc = "process"
    /\ processed' = Append(processed, event.src_path)
    /\ file_path' = event.src_path
    /\ event' = NoEvent
    /\ all_ok' = TRUE
    /\ \E readable \in BOOLEAN, t \in Readable :
          IF event.ext \notin {".txt", ".docx", ".pdf"} \/ ~readable
          THEN /\ ipc' = "done"
               /\ UNCHANGED <<text, segments, seg_idx, ingested>>
          ELSE /\ text' = t
               /\ ingested' = ingested + Len(t)
               /\ segments' = Chunk(t, segment_length)
               /\ seg_idx' = NextSegment(Chunk(t, segment_length), 1)
               /\ ipc' = IF NextSegment(Chunk(t, segment_length), 1)
                               > Len(Chunk(t, segment_length))
                         THEN "done" ELSE "summarize"
    /\ UNCHANGED <<queue, created, file_size, segment_length, summary_resp,
                   summarized_segment, embedding, collection, origin>>
    /\ UNCHANGED ingestPipeVars
    /\ UNCHANGED embed_resp

\* summarized_segment = summarize_text_with_llm(segment, prompt=prompt)
Summarize ==
    /\ ipc = "summarize"
    /\ \E resp \in SummaryOutcomes :
          LET r == summarize_text_with_llm(segments[seg_idx], resp) IN
          /\ summary_resp' = resp
          /\ all_ok' = (all_ok /\ resp.kind = "completion")
          /\ IF r.raised
             THEN /\ ipc' = "done"
                  /\ UNCHANGED summarized_segment
             ELSE /\ ipc' = "embed"
                  /\ summarized_segment' = r.text
    /\ UNCHANGED <<watcherVars, file_path, ingested, text, segment_length,
                   segments, seg_idx, embedding, collection, origin>>
    /\ UNCHANGED ingestPipeVars
    /\ UNCHANGED embed_resp

\* embedding = generate_embedding(summarized_segment), and the test
\* "if embedding and isinstance(embedding, list)"
EmbedSegment ==
    /\ ipc = "embed"
    /\ \E resp \in EmbedOutcomes(DimDoc2DB) :
          LET e == generate_embedding_Doc2DB(resp) IN
          /\ embed_resp' = resp
          /\ embedding' = e
          /\ all_ok' = (all_ok /\ resp.ok /\ e.len > 0)
          /\ IF e.len > 0
             THEN /\ ipc' = "insert"
                  /\ UNCHANGED <<seg_idx, summary_resp>>
             ELSE /\ summary_resp' = NoSummary
                  /\ seg_idx' = NextSegment(segments, seg_idx + 1)
                  /\ ipc' = IF NextSegment(segments, seg_idx + 1) > Len(segments)
                            THEN "done" ELSE "summarize"
    /\ UNCHANGED <<watcherVars, file_path, ingested, text, segment_length,
                   segments, summarized_segment, collection, origin>>
    /\ UNCHANGED ingestPipeVars

\* collection.insert([[embedding], [summarized_segment]]), which stores the
\* record or raises
Insert ==
    /\ ipc = "insert"
    /\ \/ /\ collection' = Append(collection,
                [embeddings |-> embedding, text_segment |-> summarized_segment])
          /\ origin' = Append(origin, [file |-> file_path, seg |-> seg_idx])
          /\ UNCHANGED all_ok
       \/ /\ all_ok' = FALSE
          /\ UNCHANGED <<collection, origin>>
    /\ summary_resp' = NoSummary
    /\ seg_idx' = NextSegment(segments, seg_idx + 1)
    /\ ipc' = IF NextSegment(segments, seg_idx + 1) > Len(segments)
              THEN "done" ELSE "summarize"
    /\ UNCHANGED <<watcherVars, file_path, ingested, text, segment_length,
                   segments, summarized_segment, embedding>>
    /\ UNCHANGED ingestPipeVars
    /\ UNCHANGED embed_resp

\* process_file returns, and on_created with it: the observer thread is
\* free for the next event
Return ==
    /\ ipc = "done"
    /\ ipc' = "idle"
    /\ file_size' = 0
    /\ file_path' = "none"
    /\ all_ok' = TRUE
    /\ text' = <<>>
    /\ segments' = <<>>
    /\ seg_idx' = 0
    /\ summary_resp' = NoSummary
    /\ summarized_segment' = <<>>
    /\ embedding' = NoVector
    /\ embed_resp' = NoResponse
    /\ UNCHANGED <<queue, created, event, processed, ingested,
                   segment_length, collection, origin>>
    /\ UNCHANGED ingestPipeVars

Next ==
    \/ PipeCall
    \/ EmbedUser
    \/ HypotheticalAnswer
    \/ EmbedHypothetical
    \/ Search
    \/ Generate
    \/ GenerateSupervised
    \/ AssembleLine
    \/ Supervise
    \/ FileCreated
    \/ OnCreated
    \/ GetSize
    \/ ProcessFile
    \/ Summarize
    \/ EmbedSegment
    \/ Insert
    \/ Return

Spec == Init /\ [][Next]_vars

(***************************************************************************)
(* The claims.                                                             *)
(***************************************************************************)
IsSupervised == variant = "supervised"

\* C1: the supervised pipe issues at most max_retries generation requests;
\* when no attempt's answer was approved by the supervisor it returns the
\* fixed fallback message; an answer the supervisor did not approve is
\* never returned.
C1_RetryBoundAndFallback ==
    IsSupervised =>
        /\ gen_calls <= max_retries
        /\ (pc = "done" /\ "approval" \notin verdicts_seen)
              => outcome = Returned("exhausted", FALLBACK)
        /\ outcome.kind = "answer" => Approves(last_verdict)

\* C2: in every variant and under every failure of the external calls,
\* pipe returns a value and never raises to its caller.
C2_PipeNeverRaises ==
    variant \in Variants => outcome.kind # "raise"

\* C3: in the supervised loop an attempt is accepted (its answer returned)
\* only when the supervisor's response signals approval; a negative
\* verdict, a malformed text or a failed call leads to a retry.
C3_AcceptedOnlyOnApproval ==
    (IsSupervised /\ last_verdict # NoVerdict /\ ~Approves(last_verdict))
        => outcome.kind # "answer"

\* the variable the latest embedding request was made for
EmbeddedInto ==
    IF variant = "doc2db" THEN embedding
    ELSE IF variant = "hyde" /\ pc = "search" THEN hypothetical_vector
    ELSE user_vector

\* C4: in every embedding client, when the embedding service fails or
\* answers with a vector whose length is not the configured dimension,
\* generate_embedding returns the zero vector of the configured dimension.
C4_EmbeddingFallback ==
    (/\ embed_resp # NoResponse
     /\ ~embed_resp.ok \/ embed_resp.embedding.len # Dim(variant))
        => EmbeddedInto = ZeroVector(Dim(variant))

\* C5: in HyDE mode the search is issued with both vectors and the result
\* draws on the hits of both: hits of the hypothetical-answer vector alone
\* reach the returned contexts.
C5_HydeUsesBothVectors ==
    (variant = "hyde" /\ pc = "generate")
        => /\ Len(search_dims) = 2
           /\ (search_hits[1] = <<>> /\ search_hits[2] # <<>>)
                 => retrieved_contexts # <<>>

\* C6: in every variant, when the vector-store search fails,
\* retrieve_relevant_information returns an empty list without raising,
\* and pipe goes on to the generation request with no retrieved segment.
C6_SearchFailureYieldsEmpty ==
    (variant \in Variants /\ search_failed)
        => /\ outcome.kind # "raise"
           /\ retrieved_contexts = <<>>
           /\ pc = "done" => gen_calls >= 1

\* C7: whatever calls came before and whatever prior turns the caller
\* passed, the messages of every generation request are exactly one user
\* turn, built from the persona prompt, this call's user message and this
\* call's retrieved segments.
C7_OneSynthesizedUserTurn ==
    (variant \in Variants /\ gen_calls > 0)
        => sent = << [role |-> "user",
                      content |-> combine_user_message_with_context(
                                     variant, user_message,
                                     retrieved_contexts)] >>

\* C7 witness: a second call that came with prior turns has sent its
\* generation request a second time (a retry of the supervised loop)
C7_Witness ==
    /\ IsSupervised
    /\ calls = 2
    /\ prior_len > 0
    /\ gen_calls = 2
    /\ retrieved_contexts # <<>>

RECURSIVE Flatten(_)
Flatten(segs) ==
    IF segs = <<>> THEN <<>> ELSE Head(segs) \o Flatten(Tail(segs))

\* C8: the segments of process_file, concatenated in order, are the text;
\* the segment handed to summarization is at most segment_length long and
\* is not blank.
C8_Chunker ==
    (variant = "doc2db" /\ ipc # "idle")
        => /\ Flatten(segments) = text
           /\ ipc \in {"summarize", "embed", "insert"}
                => /\ Len(segments[seg_idx]) <= segment_length
                   /\ Len(segments[seg_idx]) > 0
                   /\ \E i \in 1..Len(segments[seg_idx]) :
                         segments[seg_idx][i] \notin Whitespace

\* C8 witness: a blank first segment was dropped and the second, shorter
\* than segment_length, is handed to summarization
C8_Witness ==
    /\ ipc = "summarize"
    /\ segment_length = 2
    /\ Len(text) = 3
    /\ seg_idx = 2
    /\ segments[1] = <<" ", " ">>
    /\ Len(segments[2]) = 1

\* C9: when every generation request succeeds and every verdict of the
\* supervisor is negative, the supervised pipe ends after exactly 5
\* generation requests and 5 supervision requests with the fixed message.
C9_FiveNegativeVerdicts ==
    (IsSupervised /\ pc = "done" /\ ~gen_failed
        /\ verdicts_seen = {"negative"})
        => /\ gen_calls = 5
           /\ sup_calls = 5
           /\ outcome = Returned("exhausted", FALLBACK)

\* C10: a failure while one segment is processed never keeps a later
\* non-blank segment of the document from being processed: when
\* process_file is over, the for loop has gone past every non-blank segment.
C10_SegmentFailureIsolated ==
    (variant = "doc2db" /\ ipc = "done")
        => \A i \in 1..Len(segments) :
              ~IsBlank(segments[i]) => i <= seg_idx

\* C11: whenever the summarization of a segment fails (transport failure,
\* non-2xx response, or a response without a usable completion), the text
\* that goes on to be embedded and stored for that segment is the original
\* segment, unchanged.
C11_SummaryFailureKeepsOriginal ==
    (variant = "doc2db"
        /\ summary_resp.kind \in {"fail", "nochoices", "nocontent"})
        => /\ ipc \in {"embed", "insert"}
           /\ summarized_segment = segments[seg_idx]

\* C12: a stream frame that cannot be parsed or has not the expected shape
\* (invalid JSON, empty choices list, missing or null content) is skipped:
\* no frame ends the attempt, which goes on with the next frames and then
\* to validation, so pipe never returns the "other error" string that an
\* exception of the line loop produces.
C12_MalformedFrameSkipped ==
    IsSupervised =>
        /\ outcome # Returned("other_error", <<"IndexError">>)
        /\ outcome # Returned("other_error", <<"TypeError">>)

\* C13: every embedding the ingestion hands to collection.insert, every
\* embedding persisted, and every query vector a query pipeline passes to
\* collection.search has the length the collection is configured for (a
\* vector of another length was replaced by the zero vector before).
C13_DimensionInvariant ==
    /\ (variant = "doc2db" /\ ipc = "insert") => embedding.len = DimDoc2DB
    /\ \A i \in DOMAIN collection : collection[i].embeddings.len = DimDoc2DB
    /\ variant \in Variants =>
          \A i \in DOMAIN search_dims : search_dims[i] = Dim(variant)

\* the steps of a supervised call: every action of the pipe but the call
PipeStep ==
    EmbedUser \/ Search \/ GenerateSupervised \/ AssembleLine \/ Supervise

\* an upper bound of the steps a supervised call can still take: one
\* iteration of the while loop is the generation request, at most MaxFrames
\* lines and the end of the stream, and the supervision
StepsLeft ==
    LET iteration == MaxFrames + 3 IN
    CASE pc = "called" -> max_retries * iteration + 2
      [] pc = "search" -> max_retries * iteration + 1
      [] pc = "generate" -> (max_retries - retry_count) * iteration
      [] pc = "assemble" ->
            (max_retries - retry_count) * iteration - 1 - lines_read
      [] pc = "supervise" ->
            (max_retries - retry_count) * iteration - MaxFrames - 2
      [] OTHER -> 0

\* C14: when every external call returns and every response stream is
\* finite, a call of the supervised pipe terminates: a call that has not
\* returned can always take a step, every step strictly decreases a
\* natural-number bound of the steps left, and the while loop issues at
\* most max_retries generation and supervision requests.
C14_SupervisedPipeTerminates ==
    /\ [](IsSupervised =>
            /\ StepsLeft >= 0
            /\ gen_calls <= max_retries
            /\ sup_calls <= max_retries
            /\ retry_count <= max_retries
            /\ pc \notin {"idle", "done"} => ENABLED PipeStep
            /\ pc = "done" => outcome.kind # "none")
    /\ [][(IsSupervised /\ pc \notin {"idle", "done"})
            => StepsLeft' < StepsLeft]_vars

\* C14 witness: a call that used up the whole retry budget, reading a full
\* stream on the way, has returned
C14_Witness ==
    /\ IsSupervised
    /\ pc = "done"
    /\ gen_calls = max_retries
    /\ sup_calls = max_retries
    /\ generated_answer # <<>>
    /\ outcome = Returned("exhausted", FALLBACK)

\* C15: in HyDE mode a failure of the hypothetical-answer request
\* (transport failure or non-2xx response) does not abort retrieval:
\* retrieve_relevant_information does not raise and still issues the
\* similarity search.
C15_HypotheticalFailureDegrades ==
    (variant = "hyde" /\ hyp_resp = "fail")
        => /\ outcome.kind # "raise"
           /\ pc \in {"generate", "done"} => search_dims # <<>>

\* what the frames of a stream amount to: the contents of the valid data
\* frames that precede the first terminal sentinel, concatenated in order
RECURSIVE ConcatValid(_)
ConcatValid(fs) ==
    IF fs = <<>> THEN <<>>
    ELSE IF Head(fs).kind = "done" THEN <<>>
    ELSE IF Head(fs).kind = "delta"
         THEN Head(fs).content \o ConcatValid(Tail(fs))
    ELSE ConcatValid(Tail(fs))

\* C16: for every sequence of stream frames delivered to a generation
\* attempt, the attempt assembles an answer, and it is the in-order
\* concatenation of the content fragments of the valid data frames before
\* the first sentinel; the other lines contribute nothing (so the same
\* frames give the same answer again).  Whatever frames the loop has
\* consumed, it is still assembling and its buffer is their concatenation;
\* the answer it hands to validation, at the sentinel or at the end of the
\* stream, is the concatenation of the frames consumed before.
C16_AssembledAnswer ==
    /\ []((IsSupervised /\ frames_seen # <<>>)
            => /\ pc = "assemble"
               /\ generated_answer = ConcatValid(frames_seen))
    /\ [][(IsSupervised /\ pc = "assemble" /\ pc' = "supervise")
            => generated_answer' = ConcatValid(frames_seen)]_vars

\* C17: the attempts of the supervised loop are strictly sequential: every
\* generation request but the last has had its supervision; an attempt
\* whose stream has been assembled gets exactly one supervision request, on
\* the answer as assembled; and the generation request of attempt k+1 is
\* issued only after the supervisor's verdict on attempt k has been
\* received and was not an approval.
C17_SequentialAttempts ==
    /\ [](IsSupervised =>
            /\ sup_calls <= gen_calls
            /\ gen_calls <= sup_calls + 1
            /\ pc \in {"assemble", "supervise"} => sup_calls = gen_calls - 1)
    /\ [][(IsSupervised /\ pc = "supervise")
            => /\ sup_calls' = gen_calls
               /\ gen_calls' = gen_calls
               /\ generated_answer' = generated_answer
               /\ last_verdict' # NoVerdict]_vars
    /\ [][(IsSupervised /\ gen_calls > 0 /\ gen_calls' = gen_calls + 1)
            => /\ sup_calls = gen_calls
               /\ last_verdict # NoVerdict
               /\ ~Approves(last_verdict)]_vars

\* C18: for every file-created event, process_file is invoked at most
\* once, only when the event is not a directory's and its path has a
\* recognized document extension, and only after the file's size has been
\* observed non-zero; never while the last observed size is 0.
C18_ProcessFileOncePerQualifyingEvent ==
    /\ [](variant = "doc2db" =>
            /\ \A i, j \in DOMAIN processed :
                  processed[i] = processed[j] => i = j
            /\ Len(processed) + Len(queue) <= created
            /\ ipc = "waiting" => file_size = 0
            /\ ipc = "process" =>
                  /\ ~event.is_directory
                  /\ event.ext \in {".txt", ".doc", ".docx", ".pdf"}
                  /\ file_size > 0)
    /\ [][processed' # processed =>
            /\ processed' = Append(processed, event.src_path)
            /\ ~event.is_directory
            /\ event.ext \in {".txt", ".doc", ".docx", ".pdf"}
            /\ file_size > 0]_vars

\* C18 witness: process_file has been invoked for the second event, a
\* document whose segments are being ingested
C18_Witness ==
    /\ processed = <<"f1", "f2">>
    /\ file_path = "f2"
    /\ file_size > 0
    /\ ipc = "summarize"

\* the indices of the non-blank segments from index i on, in order
RECURSIVE NonBlankFrom(_, _)
NonBlankFrom(segs, i) ==
    IF i > Len(segs) THEN <<>>
    ELSE IF \E k \in 1..Len(segs[i]) : segs[i][k] \notin Whitespace
         THEN <<i>> \o NonBlankFrom(segs, i + 1)
    ELSE NonBlankFrom(segs, i + 1)

\* the segments the running process_file has inserted, in insertion order
InsertedSegments ==
    LET mine == SelectSeq(origin, LAMBDA o : o.file = file_path)
    IN  [i \in 1..Len(mine) |-> mine[i].seg]

\* C19: when the summarization, embedding and insertion requests of a
\* document all succeed, process_file issues exactly one insertion per
\* non-blank segment, in segment order, each pairing the segment's embedding
\* with its text; an insertion is made by the insert step only, with a
\* non-empty embedding, and a segment whose embedding comes back empty
\* produces none.  The text "A. B. C." with segment length 4 is chunked
\* into "A. B" and ". C.".
C19_OneInsertionPerSegment ==
    /\ Chunk(<<"A", ".", " ", "B", ".", " ", "C", ".">>, 4)
          = << <<"A", ".", " ", "B">>, <<".", " ", "C", ".">> >>
    /\ [](variant = "doc2db" =>
            /\ (ipc = "done" /\ all_ok)
                  => InsertedSegments = NonBlankFrom(segments, 1)
            /\ (ipc \in {"summarize", "embed", "insert"} /\ all_ok)
                  => InsertedSegments \o NonBlankFrom(segments, seg_idx)
                        = NonBlankFrom(segments, 1))
    /\ [][collection' # collection =>
            /\ ipc = "insert"
            /\ embedding.len > 0
            /\ collection' = Append(collection,
                  [embeddings |-> embedding,
                   text_segment |-> summarized_segment])
            /\ origin' = Append(origin, [file |-> file_path, seg |-> seg_idx])
          ]_vars
    /\ [][(ipc = "embed" /\ embedding'.len = 0)
            => (ipc' # "insert" /\ collection' = collection)]_vars

\* C19 witness: a document of three segments, the second one blank, has
\* been processed without a failure and left two records
C19_Witness ==
    /\ ipc = "done"
    /\ all_ok
    /\ Len(segments) = 3
    /\ InsertedSegments = <<1, 3>>
    /\ Len(collection) = 2

\* C20: whatever the arrival order of the created events, at most one file
\* is being ingested at any time: on_created is entered for an event only
\* when no call of on_created is running, every insertion belongs to the
\* file of the one running process_file, the latest one started, and the
\* records of a file are contiguous in the collection, file after file in
\* the order of the events.
C20_OneFileAtATime ==
    /\ [](variant = "doc2db" =>
            /\ \A i, j \in DOMAIN origin :
                  i < j => \E m, n \in DOMAIN processed :
                              /\ m <= n
                              /\ processed[m] = origin[i].file
                              /\ processed[n] = origin[j].file
            /\ ipc \in {"summarize", "embed", "insert", "done"}
                  => file_path = processed[Len(processed)]
            /\ ipc \in {"idle", "waiting", "process"} => file_path = "none")
    /\ [][Len(queue') < Len(queue) => ipc = "idle"]_vars
    /\ [][collection' # collection =>
            /\ ipc = "insert"
            /\ origin'[Len(origin')].file = file_path]_vars

\* C20 witness: the event of the second file waits in the observer's queue
\* while the first file, one record already stored, is being ingested
C20_Witness ==
    /\ created = 2
    /\ queue = <<"f2">>
    /\ file_path = "f1"
    /\ ipc = "insert"
    /\ Len(origin) = 1
    /\ origin[1].file = "f1"

\* C21: the answer buffer is reset at the start of every generation
\* attempt: while an attempt is assembled the buffer holds the fragments of
\* the lines of this attempt and nothing else, whatever an earlier,
\* rejected attempt left in it; the supervision does not touch the buffer,
\* and the answer returned as accepted is the buffer of the attempt whose
\* verdict made pipe return.
C21_BufferResetPerAttempt ==
    /\ [](IsSupervised =>
            /\ pc = "assemble" => generated_answer = ConcatValid(frames_seen)
            /\ outcome.kind = "answer" => outcome.text = generated_answer)
    /\ [][(IsSupervised /\ pc = "generate" /\ pc' = "assemble")
            => (generated_answer' = <<>> /\ frames_seen' = <<>>)]_vars
    /\ [][(IsSupervised /\ pc = "assemble" /\ pc' = "supervise")
            => generated_answer' = ConcatValid(frames_seen)]_vars
    /\ [][(IsSupervised /\ pc = "supervise")
            => /\ generated_answer' = generated_answer
               /\ outcome'.kind = "answer" => supervise_answer(last_verdict')
          ]_vars

\* C21 witness: the second attempt, made after a rejected one, is being
\* assembled and has read one fragment
C21_Witness ==
    /\ IsSupervised
    /\ pc = "assemble"
    /\ retry_count = 1
    /\ gen_calls = 2
    /\ frames_seen = <<[kind |-> "delta", content |-> <<"b">>]>>
    /\ generated_answer = <<"b">>

\* C22: a transport or non-2xx failure of a generation request, on any
\* attempt, ends the loop at once: pipe returns the request-error string,
\* no supervision request is made for that attempt (nor any later one), no
\* further generation request is issued even when retry budget remains,
\* and neither the exhaustion message nor an assembled answer is returned.
C22_RequestFailureEndsLoop ==
    /\ [][(IsSupervised /\ pc = "generate" /\ ~gen_failed /\ gen_failed')
            => /\ pc' = "done"
               /\ outcome' = Returned("request_error", <<>>)
               /\ gen_calls' = gen_calls + 1
               /\ sup_calls' = sup_calls]_vars
    /\ [](( IsSupervised /\ outcome.kind = "request_error")
            => /\ pc = "done"
               /\ gen_failed
               /\ last_verdict = NoVerdict
               /\ sup_calls = gen_calls - 1
               /\ outcome.text # FALLBACK)
    /\ [][(IsSupervised /\ outcome.kind = "request_error")
            => \/ calls' = calls + 1
               \/ /\ outcome' = outcome
                  /\ gen_calls' = gen_calls
                  /\ sup_calls' = sup_calls]_vars

\* C22 witness: the generation request of the third attempt failed, with
\* retry budget left and an earlier attempt's answer in the buffer
C22_Witness ==
    /\ IsSupervised
    /\ outcome.kind = "request_error"
    /\ retry_count = 2
    /\ gen_calls = 3
    /\ sup_calls = 2
    /\ generated_answer # <<>>

====
